---- MODULE Spec2Model ----
(***************************************************************************)
(* Chat session pipeline of the spoon-rebalancing dashboard:               *)
(*   - ChatPane (components/chat/chat-pane.tsx): the client state machine  *)
(*     owning the message log, the input buffer, the attachment queue and  *)
(*     the "agent is typing" flag;                                         *)
(*   - POST /api/chat (app/api/chat/route.ts): the relay to the agent      *)
(*     backend;                                                            *)
(*   - POST /api/files (app/api/files/route.ts): the upload endpoint, seen *)
(*     here through the answers it gives to the client.                    *)
(* Text is modelled as a sequence of string chunks (characters and fixed   *)
(* literals), so that trim, template strings and joins are computed.       *)
(***************************************************************************)
EXTENDS Integers, Sequences, FiniteSets, Bags, TLC

VARIABLES
    messages,   \* useState<ChatMessage[]>([])      the log
    input,      \* useState("")                     the input buffer
    typing,     \* useState(false)                  composing flag
    files,      \* useState<File[]>([])             attachment queue
    chats,      \* sendMessage invocations suspended at an await
    uploads,    \* onFilesChanged invocations suspended at an await
    uuid,       \* number of crypto.randomUUID() values drawn so far
    picks,      \* number of non-empty file selections so far
    toasts,     \* bag of notices the last step raised through toast
    escaped,    \* the last step ended in a rejection nobody handles
    returned,   \* source line of the early return the last step took, or 0
    settled,    \* what the upload fetch resumed in the last step settled with
    reqs,       \* the upload endpoint's POST handlers, in order of arrival
    disk,       \* public/uploads: the content stored under each name
    clock,      \* the upload endpoint's clock, read by Date.now()
    loads       \* the calls of loadChatHistory, in order

client == <<messages, input, typing, files, chats, uploads, uuid, picks,
            toasts, escaped, returned, settled>>

server == <<reqs, disk, clock>>

vars == <<client, server, loads>>

(* ---------------------------- bounds ----------------------------------- *)
MaxLen == 1      \* longest text typed into the input field
MaxOps == 3      \* accepted submissions plus file selections per session
MaxPick == 2     \* files per selection

(* ----------------------------- text ------------------------------------ *)
\* const EMOJI = [...]: the first of its twenty entries
EMOJI == {":grinning:"}

\* what the user types: blanks and one visible character
Chars == {" "} \cup EMOJI
WhiteSpace == {" ", "\n"}
Inputs == UNION {[1..n -> Chars] : n \in 0..MaxLen}

\* String.prototype.trim, as used on the input buffer
RECURSIVE TrimStart(_)
TrimStart(s) ==
    IF s = <<>> THEN <<>>
    ELSE IF Head(s) \in WhiteSpace THEN TrimStart(Tail(s)) ELSE s

RECURSIVE TrimEnd(_)
TrimEnd(s) ==
    IF s = <<>> THEN <<>>
    ELSE IF s[Len(s)] \in WhiteSpace THEN TrimEnd(SubSeq(s, 1, Len(s) - 1))
    ELSE s

\* variant: trimEnd() in place of trim()
TrimRightOnly(s) == TrimEnd(s)

\* input.trim()
Trim(s) == TrimEnd(TrimStart(s))

\* Array.prototype.join
RECURSIVE Join(_, _)
Join(parts, sep) ==
    IF parts = <<>> THEN <<>>
    ELSE IF Len(parts) = 1 THEN parts[1]
    ELSE parts[1] \o sep \o Join(Tail(parts), sep)

(* ------------------------- chat-pane.tsx ------------------------------- *)
Undefined == "undefined"

UserId(n) == <<"uuid", n>>

NoMessage == [id |-> <<"none", 0>>, role |-> "none", content |-> <<>>]

NoResponse == [kind |-> "none", ok |-> FALSE, status |-> 0,
               message |-> NoMessage, error |-> ""]

\* a fetch whose promise rejects: the request could not be sent
Rejected == [kind |-> "reject", ok |-> FALSE, status |-> 0,
             message |-> NoMessage, error |-> ""]

\* const userMsg = { id: crypto.randomUUID(), role: "user", content: text }
UserMessage(n, text) == [id |-> UserId(n), role |-> "user", content |-> text]

\* variant: setMessages([userMsg])
ReplaceWithUser(prev, userMsg) == <<userMsg>>

\* setMessages(prev => [...prev, userMsg])
AppendUser(prev, userMsg) == Append(prev, userMsg)

\* variant: setMessages(prev => [data.message, ...prev])
PrependReply(prev, m) == <<m>> \o prev

\* setMessages(prev => [...prev, data.message])
AppendReply(prev, m) == Append(prev, m)

\* variant: the submit control is never disabled
SubmitEnabledAlways == TRUE

\* <Button type="submit" disabled={typing}>
SubmitEnabled == ~typing

\* variant: no validation of the trimmed text
RejectsNothing(text) == FALSE

\* if (!text) return
Rejects(text) == text = <<>>

\* variant: the status of the response is not looked at
ThrowsOnRejectOnly(res) == res.kind = "reject"

\* the try block throws: fetch rejected, or if (!res.ok) throw
Throws(res) == res.kind = "reject" \/ ~res.ok

\* catch (err) { toast.error("Chat error") }: the request is not issued again
RefetchesChat(res, tries) == FALSE

\* if (!res.ok) return toast.error("Upload failed"): no second fetch either
RefetchesUpload(res, tries) == FALSE

\* variant: the finally block leaves typing as it is
TypingStaysAfterTurn == typing

\* finally { setTyping(false) }
TypingAfterTurn == FALSE

\* variant: the finally block leaves the attachment queue alone
FilesKeptAfterTurn == files

\* finally { setFiles([]) }
FilesAfterTurn == <<>>

(* ------------------------- api/chat/route.ts --------------------------- *)
\* [...messages].reverse().find(m => m.role === "user")
RECURSIVE LastUser(_)
LastUser(msgs) ==
    IF msgs = <<>> THEN NoMessage
    ELSE IF msgs[Len(msgs)].role = "user" THEN msgs[Len(msgs)]
    ELSE LastUser(SubSeq(msgs, 1, Len(msgs) - 1))

\* const userText = lastUser?.content ?? ""
UserText(body) == LastUser(body.messages).content

\* body of the request the relay sends to the agent backend
BackendRequest(body) ==
    [message |-> UserText(body),
     strategy_id |-> body.strategyId,
     wallet_ids |-> body.walletIds]

NoBackendRequest ==
    [message |-> <<>>, strategy_id |-> Undefined, wallet_ids |-> Undefined]

MessageIds == {<<"msg", 1>>}
AgentTexts == {<<"r">>}
ErrorBodies == {"", "LLM timeout"}
ErrorStatuses == {429}

\* what the agent backend may do with one request
BackendOutcomes ==
    [kind : {"ok"}, status : {200}, message_id : MessageIds,
     agent_response : AgentTexts, body : {""}]
    \cup [kind : {"status"}, status : ErrorStatuses,
          message_id : {<<"none", 0>>}, agent_response : {<<>>},
          body : ErrorBodies]
    \cup [kind : {"unreachable", "malformed"}, status : {0},
          message_id : {<<"none", 0>>}, agent_response : {<<>>},
          body : {""}]

NoOutcome ==
    [kind |-> "none", status |-> 0, message_id |-> <<"none", 0>>,
     agent_response |-> <<>>, body |-> ""]

\* variant: the relay asks the backend once more after a failure
RefetchesBackendOnError(o, sent) == o.kind # "ok" /\ sent < 2

\* the handler holds one fetch of the backend and no loop around it
RefetchesBackend(o, sent) == FALSE

\* variant: the relay answers with the backend's reply under an id of its own
RelayResponseOwnId(o) ==
    CASE o.kind = "ok" ->
           [kind |-> "http", ok |-> TRUE, status |-> 200,
            message |-> [id |-> <<"msg", 0>>, role |-> "assistant",
                         content |-> o.agent_response],
            error |-> ""]
      [] o.kind = "status" ->
           [kind |-> "http", ok |-> FALSE, status |-> o.status,
            message |-> NoMessage,
            error |-> IF o.body = "" THEN "Chat backend error" ELSE o.body]
      [] OTHER ->
           [kind |-> "http", ok |-> FALSE, status |-> 500,
            message |-> NoMessage, error |-> "Internal Server Error"]

\* variant: every backend failure is answered with status 500
RelayResponseAlways500(o) ==
    CASE o.kind = "ok" ->
           [kind |-> "http", ok |-> TRUE, status |-> 200,
            message |-> [id |-> o.message_id, role |-> "assistant",
                         content |-> o.agent_response],
            error |-> ""]
      [] OTHER ->
           [kind |-> "http", ok |-> FALSE, status |-> 500,
            message |-> NoMessage,
            error |-> IF o.body = "" THEN "Chat backend error" ELSE o.body]

\* the response the relay gives for one backend outcome
RelayResponse(o) ==
    IF o.kind = "ok"
    THEN [kind |-> "http", ok |-> TRUE, status |-> 200,
          message |-> [id |-> o.message_id, role |-> "assistant",
                       content |-> o.agent_response],
          error |-> ""]
    ELSE IF o.kind = "status"
    THEN [kind |-> "http", ok |-> FALSE, status |-> o.status,
          message |-> NoMessage,
          error |-> IF o.body = "" THEN "Chat backend error" ELSE o.body]
    ELSE \* fetch or res.json() threw inside the handler: the framework's 500
         [kind |-> "http", ok |-> FALSE, status |-> 500,
          message |-> NoMessage, error |-> "Internal Server Error"]

(* ------------------------- api/files/route.ts -------------------------- *)
SafeChars == {"a", "_"}
FileNames == {<<"a", "#">>}
Picks == UNION {[1..n -> FileNames] : n \in 0..MaxPick}
\* Date.now(): the requests of a session are served within one millisecond
Times == {0}

\* file.name.replace(/[^a-zA-Z0-9.\-_]/g, "_")
Sanitize(name) ==
    [i \in 1..Len(name) |-> IF name[i] \in SafeChars THEN name[i] ELSE "_"]

\* const safeName = `${Date.now()}-${sanitized}`
SafeName(now, name) == <<ToString(now), "-">> \o Sanitize(name)

\* urls.push(`/uploads/${safeName}`)
Url(now, name) == <<"/uploads/">> \o SafeName(now, name)

\* the clock readings of one request, one per file, never decreasing
Clocks(n) == {ts \in [1..n -> Times] : \A i \in 1..n - 1 : ts[i] <= ts[i + 1]}

UploadOk(picked, ts) ==
    [kind |-> "http", ok |-> TRUE, status |-> 200,
     urls |-> [i \in 1..Len(picked) |-> Url(ts[i], picked[i])]]

UploadFailed == [kind |-> "http", ok |-> FALSE, status |-> 500, urls |-> <<>>]
UploadRejected == [kind |-> "reject", ok |-> FALSE, status |-> 0, urls |-> <<>>]
NoUpload == [kind |-> "none", ok |-> FALSE, status |-> 0, urls |-> <<>>]

\* what the client may see for one upload request
UploadResponses(picked) ==
    {UploadOk(picked, ts) : ts \in Clocks(Len(picked))}
    \cup {UploadFailed, UploadRejected}

(* --------------------- chat-pane.tsx: attachments ---------------------- *)
\* urls.map(u => `Attachment: ${u}`).join("\n")
Joined(urls) ==
    Join([i \in 1..Len(urls) |-> <<"Attachment: ">> \o urls[i]], <<"\n">>)

\* variant: the reference lines follow the previous text on the next line
WithAttachmentsNextLine(prev, joined) ==
    IF prev # <<>> THEN prev \o <<"\n">> \o joined ELSE joined

\* variant: setInput(joined), the buffer is replaced by the reference lines
WithAttachmentsReplacing(prev, joined) == joined

\* setInput(prev => prev ? `${prev}\n\n${joined}` : joined)
WithAttachments(prev, joined) ==
    IF prev # <<>> THEN prev \o <<"\n", "\n">> \o joined ELSE joined

\* variant: a failed upload empties the input buffer
InputClearedOnFailure(prev, res) ==
    IF res.kind = "http" /\ res.ok /\ Len(res.urls) > 0
    THEN WithAttachments(prev, Joined(res.urls))
    ELSE <<>>

\* the input buffer once the upload's continuation has run
InputAfterUpload(prev, res) ==
    IF res.kind = "http" /\ res.ok /\ Len(res.urls) > 0
    THEN WithAttachments(prev, Joined(res.urls))
    ELSE prev

\* variant: the upload's continuation ends the typing indicator
TypingClearedAfterUpload == FALSE

\* onFilesChanged calls setFiles, setInput and toast only: typing is kept
TypingAfterUpload == typing

\* the notices the upload's continuation raises
UploadToasts(res) ==
    IF res.kind = "reject" THEN EmptyBag
    ELSE IF ~res.ok THEN SetToBag({"Upload failed"})
    ELSE IF Len(res.urls) > 0 THEN SetToBag({"Files attached"})
    ELSE EmptyBag

\* await fetch("/api/files") rejects outside any try block
UploadEscapes(res) == res.kind = "reject"

\* what a step that raises nothing and returns normally leaves behind
Quiet ==
    toasts' = EmptyBag /\ escaped' = FALSE /\ returned' = 0 /\ settled' = NoUpload

(* ------------------------------ Init ----------------------------------- *)
Init ==
    /\ messages = <<>>
    /\ input = <<>>
    /\ typing = FALSE
    /\ files = <<>>
    /\ chats = {}
    /\ uploads = {}
    /\ uuid = 0
    /\ picks = 0
    /\ toasts = EmptyBag
    /\ escaped = FALSE
    /\ returned = 0
    /\ settled = NoUpload
    /\ reqs = <<>>
    /\ disk = {}
    /\ clock = 0
    /\ loads = <<>>

(* ----------------------------- actions --------------------------------- *)
\* onChange={e => setInput(e.target.value)}
onChange ==
    /\ \E v \in Inputs : input' = v
    /\ Quiet
    /\ UNCHANGED <<messages, typing, files, chats, uploads, uuid, picks, server, loads>>

\* onClick={() => setInput(prev => (prev || "") + e)}
insertEmoji ==
    /\ Len(input) < MaxLen
    /\ \E e \in EMOJI : input' = input \o <<e>>
    /\ Quiet
    /\ UNCHANGED <<messages, typing, files, chats, uploads, uuid, picks, server, loads>>

\* onFilesChanged up to its first await
onFilesChanged ==
    /\ \E picked \in Picks :
         IF Len(picked) = 0
         THEN returned' = 60 /\ UNCHANGED <<files, uploads, picks>>
         ELSE /\ uuid + picks < MaxOps
              /\ returned' = 0
              /\ files' = picked
              /\ picks' = picks + 1
              /\ uploads' = uploads \cup
                    {[id |-> picks + 1, picked |-> picked, tries |-> 1]}
    /\ toasts' = EmptyBag /\ escaped' = FALSE /\ settled' = NoUpload
    /\ UNCHANGED <<messages, input, typing, chats, uuid, server, loads>>

\* onFilesChanged from its fetch, settled by the endpoint's answer or by a
\* rejection, to its end
onFilesChangedResume ==
    /\ \E u \in uploads : \E res \in UploadResponses(u.picked) :
         IF ~(res.kind = "http" /\ res.ok) /\ RefetchesUpload(res, u.tries)
         THEN /\ uploads' = (uploads \ {u}) \cup {[u EXCEPT !.tries = @ + 1]}
              /\ settled' = NoUpload
              /\ toasts' = EmptyBag
              /\ escaped' = FALSE
              /\ input' = input
         ELSE /\ uploads' = uploads \ {u}
              /\ settled' = res
              /\ input' = InputAfterUpload(input, res)
              /\ toasts' = UploadToasts(res)
              /\ escaped' = UploadEscapes(res)
    /\ returned' = 0
    /\ typing' = TypingAfterUpload
    /\ UNCHANGED <<messages, files, chats, uuid, picks, server, loads>>

\* sendMessage up to its first await
sendMessage ==
    /\ SubmitEnabled
    /\ LET text == Trim(input) IN
         IF Rejects(text)
         THEN returned' = 77 /\ UNCHANGED <<messages, input, typing, chats, uuid>>
         ELSE /\ uuid + picks < MaxOps
              /\ returned' = 0
              /\ LET userMsg == UserMessage(uuid + 1, text) IN
                   /\ messages' = AppendUser(messages, userMsg)
                   /\ chats' = chats \cup
                        {[userMsg |-> userMsg,
                          body |-> [messages |-> messages,
                                    strategyId |-> Undefined,
                                    walletIds |-> Undefined,
                                    message |-> text],
                          pc |-> "fetch",
                          tries |-> 1,
                          sent |-> 0,
                          backendReq |-> NoBackendRequest,
                          outcome |-> NoOutcome,
                          res |-> NoResponse]}
              /\ input' = <<>>
              /\ typing' = TRUE
              /\ uuid' = uuid + 1
    /\ toasts' = EmptyBag /\ escaped' = FALSE /\ settled' = NoUpload
    /\ UNCHANGED <<files, uploads, picks, server, loads>>

\* the relay's POST handler up to its fetch of the agent backend
relayPOST ==
    /\ \E c \in chats :
         /\ c.pc = "fetch"
         /\ chats' = (chats \ {c}) \cup
               {[c EXCEPT !.pc = "backend",
                          !.sent = 1,
                          !.backendReq = BackendRequest(c.body)]}
    /\ Quiet
    /\ UNCHANGED <<messages, input, typing, files, uploads, uuid, picks, server, loads>>

\* the relay's POST handler from the backend's answer to its response
relayPOSTResume ==
    /\ \E c \in chats :
         /\ c.pc = "backend"
         /\ \E o \in BackendOutcomes :
              chats' = (chats \ {c}) \cup
                    {IF RefetchesBackend(o, c.sent)
                     THEN [c EXCEPT !.sent = @ + 1]
                     ELSE [c EXCEPT !.pc = "settled", !.outcome = o,
                                    !.res = RelayResponse(o)]}
    /\ Quiet
    /\ UNCHANGED <<messages, input, typing, files, uploads, uuid, picks, server, loads>>

\* fetch("/api/chat") rejects: the request cannot be sent
chatFetchRejects ==
    /\ \E c \in chats :
         /\ c.pc = "fetch"
         /\ chats' = (chats \ {c}) \cup
               {[c EXCEPT !.pc = "settled", !.res = Rejected]}
    /\ Quiet
    /\ UNCHANGED <<messages, input, typing, files, uploads, uuid, picks, server, loads>>

\* sendMessage from the settled fetch through catch and finally
sendMessageResume ==
    /\ \E c \in chats :
         /\ c.pc = "settled"
         /\ IF Throws(c.res) /\ RefetchesChat(c.res, c.tries)
            THEN /\ chats' = (chats \ {c}) \cup
                       {[c EXCEPT !.pc = "fetch", !.tries = @ + 1,
                                  !.res = NoResponse]}
                 /\ toasts' = EmptyBag
                 /\ UNCHANGED <<messages, typing, files>>
            ELSE /\ chats' = chats \ {c}
                 /\ IF Throws(c.res)
                    THEN /\ messages' = messages
                         /\ toasts' = SetToBag({"Chat error"})
                    ELSE /\ messages' = AppendReply(messages, c.res.message)
                         /\ toasts' = EmptyBag
                 /\ typing' = TypingAfterTurn
                 /\ files' = FilesAfterTurn
    /\ escaped' = FALSE /\ returned' = 0 /\ settled' = NoUpload
    /\ UNCHANGED <<input, uploads, uuid, picks, server, loads>>

Next ==
    \/ onChange
    \/ insertEmoji
    \/ onFilesChanged
    \/ onFilesChangedResume
    \/ sendMessage
    \/ relayPOST
    \/ relayPOSTResume
    \/ chatFetchRejects
    \/ sendMessageResume

Spec == Init /\ [][Next]_vars

\* the submissions and file selections of a behaviour checked for progress
MaxLiveOps == 2

LiveBound == uuid' + picks' <= MaxLiveOps

NextLive ==
    \/ onChange /\ LiveBound
    \/ insertEmoji /\ LiveBound
    \/ onFilesChanged /\ LiveBound
    \/ onFilesChangedResume /\ LiveBound
    \/ sendMessage /\ LiveBound
    \/ relayPOST /\ LiveBound
    \/ relayPOSTResume /\ LiveBound
    \/ chatFetchRejects /\ LiveBound
    \/ sendMessageResume /\ LiveBound

\* the network settles every request that was sent, and the event loop runs
\* a continuation whose promise has settled
SpecLive ==
    /\ Init /\ [][NextLive]_vars
    /\ WF_vars(relayPOST \/ chatFetchRejects)
    /\ WF_vars(relayPOSTResume)
    /\ WF_vars(sendMessageResume)

(* --------------- api/files/route.ts: the handler, step by step --------- *)
\* the elements of a sequence of sequences, in order
RECURSIVE Flat(_)
Flat(ss) == IF ss = <<>> THEN <<>> ELSE ss[1] \o Flat(Tail(ss))

\* the files of all upload requests of one behaviour, and the clock's range
MaxFiles == 3
MaxClock == 1

\* original names: "#" is replaced by the sanitizer, "_" is kept
UploadNames == {<<"#">>, <<"_">>}

\* form.getAll("files"): the names of one request's files
Batches == UNION {[1..k -> UploadNames] : k \in 1..MaxFiles}

\* file j of request n carries content <<n, j>>
FileOf(n, names, j) == [name |-> names[j], content |-> <<n, j>>]

FilesLeft == MaxFiles - Len(Flat([n \in DOMAIN reqs |-> reqs[n].files]))

\* path.join(uploadDir, safeName) of a returned URL
StoredName(url) == Tail(url)

\* fs.writeFile(filePath, buffer) resolved: the name holds the buffer
Written(d, name, content) ==
    {e \in d : e.name # name} \cup {[name |-> name, content |-> content]}

\* fs.writeFile rejected: the file was not opened, or was opened (and so
\* emptied) before the failure
WriteFailureLeaves(d, name) == {d, Written(d, name, <<>>)}

\* variant: a failed write answers with the URLs collected so far
PartialListOnThrow(urls) ==
    [kind |-> "http", ok |-> TRUE, status |-> 200, urls |-> urls]

\* the rejection leaves POST before `return NextResponse.json({ urls })`
ResponseOnThrow(urls) == UploadFailed

\* variant: the loop goes on to the next file after a failed write
PcContinuesAfterThrow(r) == IF r.i < Len(r.files) THEN "name" ELSE "failed"

\* the rejection of `await fs.writeFile` ends the for loop
PcAfterThrow(r) == "failed"

\* variant: urls.unshift(...), the newest URL comes first
Unshifted(urls, url) == <<url>> \o urls

\* urls.push(`/uploads/${safeName}`)
Pushed(urls, url) == Append(urls, url)

\* POST up to the loop: formData(), getAll("files"), mkdir, const urls = []
filesPOST ==
    /\ \E names \in Batches :
         /\ Len(names) <= FilesLeft
         /\ reqs' = Append(reqs,
               [files |-> [j \in 1..Len(names) |->
                             FileOf(Len(reqs) + 1, names, j)],
                i |-> 1, pc |-> "name", safeName |-> <<>>, urls |-> <<>>,
                failedAt |-> 0, res |-> NoUpload])
    /\ UNCHANGED <<disk, clock, client, loads>>

\* arrayBuffer(), safeName from Date.now(), the call of fs.writeFile
filesPOSTWrite(n) ==
    /\ reqs[n].pc = "name"
    /\ reqs' = [reqs EXCEPT ![n].pc = "write",
                            ![n].safeName =
                                SafeName(clock, reqs[n].files[reqs[n].i].name)]
    /\ UNCHANGED <<disk, clock, client, loads>>

\* await fs.writeFile resolves; urls.push; next file or the response
writeFileResolves(n) ==
    LET r == reqs[n]
        urls == Pushed(r.urls, <<"/uploads/">> \o r.safeName)
    IN /\ r.pc = "write"
       /\ disk' = Written(disk, r.safeName, r.files[r.i].content)
       /\ reqs' = [reqs EXCEPT
               ![n].urls = urls,
               ![n].safeName = <<>>,
               ![n].i = r.i + 1,
               ![n].pc = IF r.i < Len(r.files) THEN "name" ELSE "done",
               ![n].res = IF r.i < Len(r.files) THEN NoUpload
                          ELSE [kind |-> "http", ok |-> TRUE, status |-> 200,
                                urls |-> urls]]
       /\ UNCHANGED <<clock, client, loads>>

\* await fs.writeFile rejects: nothing in POST catches it
writeFileRejects(n) ==
    LET r == reqs[n]
    IN /\ r.pc = "write"
       /\ disk' \in WriteFailureLeaves(disk, r.safeName)
       /\ reqs' = [reqs EXCEPT
               ![n].safeName = <<>>,
               ![n].failedAt = r.i,
               ![n].i = IF PcAfterThrow(r) = "failed" THEN r.i ELSE r.i + 1,
               ![n].pc = PcAfterThrow(r),
               ![n].res = IF PcAfterThrow(r) = "failed"
                          THEN ResponseOnThrow(r.urls) ELSE NoUpload]
       /\ UNCHANGED <<clock, client, loads>>

\* a millisecond passes
tick ==
    /\ clock < MaxClock
    /\ clock' = clock + 1
    /\ UNCHANGED <<reqs, disk, client, loads>>

NextFiles ==
    \/ filesPOST
    \/ \E n \in DOMAIN reqs : filesPOSTWrite(n)
    \/ \E n \in DOMAIN reqs : writeFileResolves(n)
    \/ \E n \in DOMAIN reqs : writeFileRejects(n)
    \/ tick

SpecFiles == Init /\ [][NextFiles]_vars

(* ------------- chat/history-loader.ts and lib/backend.ts --------------- *)
\* the calls of loadChatHistory in one behaviour
MaxLoads == 2

\* loadChatHistory(strategyId?: string, limit = 50)
DefaultLimit == 50

\* an argument that was not passed
NoArg == [given |-> FALSE, text |-> <<>>, number |-> 0]

\* strategyId: not passed, the empty string, or an id (here with a blank)
StrategyIds ==
    {NoArg} \cup {[given |-> TRUE, text |-> t, number |-> 0] :
                     t \in {<<>>, <<"s", " ">>}}

\* limit: not passed, or a number
Limits ==
    {NoArg} \cup {[given |-> TRUE, text |-> <<>>, number |-> n] : n \in {1, 2}}

\* variant: if (strategyId !== undefined)
SuppliedOrEmpty(strategyId) == strategyId.given

\* if (strategyId): undefined and "" are both falsy
Supplied(strategyId) == strategyId.given /\ strategyId.text # <<>>

\* limit = 50: the default applies when the argument is not passed
LimitOf(limit) == IF limit.given THEN limit.number ELSE DefaultLimit

\* URLSearchParams serialisation of a value: a blank becomes "+"
FormEncode(text) ==
    [i \in DOMAIN text |-> IF text[i] = " " THEN "+" ELSE text[i]]

\* params.set(...) twice; params.toString()
QueryOf(strategyId, limit) ==
    (IF Supplied(strategyId)
     THEN <<"strategy_id", "=">> \o FormEncode(strategyId.text) \o <<"&">>
     ELSE <<>>)
    \o <<"limit", "=", ToString(LimitOf(limit))>>

\* what the backend holds for the session: one prior turn
PriorTurns ==
    <<[message_id |-> <<"msg", 0>>, user_message |-> <<":grinning:">>,
       agent_response |-> <<"r">>]>>

NoHistory == [messages |-> <<>>, total |-> -1]

\* ChatHistoryResponse bodies the backend may answer with
Histories ==
    {[messages |-> <<>>, total |-> 0], [messages |-> PriorTurns, total |-> 1]}

\* how the fetch of lib/backend.ts may end
HistoryOutcomes ==
    {[kind |-> "ok", status |-> 200, body |-> h] : h \in Histories}
    \cup {[kind |-> "status", status |-> st, body |-> NoHistory] :
            st \in {404, 500}}
    \cup {[kind |-> "malformed", status |-> 200, body |-> NoHistory],
          [kind |-> "unreachable", status |-> 0, body |-> NoHistory]}

NoHistoryOutcome == [kind |-> "none", status |-> 0, body |-> NoHistory]

NotSettled == [kind |-> "pending", value |-> NoHistory, error |-> <<>>]

\* variant: a failed request yields an empty history
LoadResultEmptyOnError(o) ==
    IF o.kind = "ok"
    THEN [kind |-> "returned", value |-> o.body, error |-> <<>>]
    ELSE [kind |-> "returned", value |-> [messages |-> <<>>, total |-> 0],
          error |-> <<>>]

\* backend(): fetch, if (!res.ok) throw new Error(`Backend ${res.status}`),
\* return res.json(); loadChatHistory returns that promise
LoadResult(o) ==
    IF o.kind = "ok"
    THEN [kind |-> "returned", value |-> o.body, error |-> <<>>]
    ELSE IF o.kind = "status"
    THEN [kind |-> "thrown", value |-> NoHistory,
          error |-> <<"Backend ", ToString(o.status)>>]
    ELSE IF o.kind = "malformed"
    THEN [kind |-> "thrown", value |-> NoHistory, error |-> <<"SyntaxError">>]
    ELSE [kind |-> "thrown", value |-> NoHistory, error |-> <<"TypeError">>]

\* loadChatHistory up to the await of fetch inside backend()
loadChatHistory ==
    /\ Len(loads) < MaxLoads
    /\ \E strategyId \in StrategyIds : \E limit \in Limits :
         loads' = Append(loads,
             [strategyId |-> strategyId, limit |-> limit,
              path |-> <<"/api/chat/history?">> \o QueryOf(strategyId, limit),
              pc |-> "fetch", outcome |-> NoHistoryOutcome,
              out |-> NotSettled])
    /\ UNCHANGED <<client, server>>

\* the fetch settles: rejection, or a response whose ok flag is tested
backendResume(n) ==
    /\ loads[n].pc = "fetch"
    /\ \E o \in HistoryOutcomes :
         loads' = [loads EXCEPT
             ![n].outcome = o,
             ![n].pc = IF o.kind \in {"ok", "malformed"} THEN "json" ELSE "done",
             ![n].out = IF o.kind \in {"ok", "malformed"} THEN NotSettled
                        ELSE LoadResult(o)]
    /\ UNCHANGED <<client, server>>

\* res.json() settles and with it the promise loadChatHistory returned
backendJson(n) ==
    /\ loads[n].pc = "json"
    /\ loads' = [loads EXCEPT ![n].pc = "done",
                              ![n].out = LoadResult(loads[n].outcome)]
    /\ UNCHANGED <<client, server>>

NextHistory ==
    \/ loadChatHistory
    \/ \E n \in DOMAIN loads : backendResume(n)
    \/ \E n \in DOMAIN loads : backendJson(n)

SpecHistory == Init /\ [][NextHistory]_vars

(* ----------------------------- helpers --------------------------------- *)
IsPrefix(s, t) == Len(s) <= Len(t) /\ SubSeq(t, 1, Len(s)) = s

Blank(s) == \A i \in 1..Len(s) : s[i] \in WhiteSpace

\* t is s without its leading and trailing white space
IsTrimOf(t, s) ==
    /\ t # <<>> => t[1] \notin WhiteSpace /\ t[Len(t)] \notin WhiteSpace
    /\ \E i \in 0..Len(s) : \E j \in i..Len(s) :
         /\ t = SubSeq(s, i + 1, j)
         /\ Blank(SubSeq(s, 1, i))
         /\ Blank(SubSeq(s, j + 1, Len(s)))

Last(s) == s[Len(s)]

\* the step is a run of sendMessage up to its return or first await
Submitted == returned' = 77 \/ uuid' # uuid

\* the step is the continuation of invocation c of sendMessage
ChatDone(c) == c \in chats /\ c \notin chats' /\ c.pc = "settled"

\* the step is the continuation of invocation u of onFilesChanged
UploadDone(u) == u \in uploads /\ u \notin uploads'

Succeeded(res) == res.kind = "http" /\ res.ok

\* the number of reference lines in a text
References(text) == Cardinality({i \in DOMAIN text : text[i] = "Attachment: "})

(* ------------------------------ claims --------------------------------- *)
\* C1: whenever the relay has forwarded a submission to the agent backend,
\* the message field of the forwarded request equals the trimmed text that
\* was submitted, the first submission of a session included.
C1_RelayForwardsSubmittedText ==
    \A c \in chats :
        c.pc = "backend" => c.backendReq.message = c.userMsg.content

\* C2: a submission of input that is not blank appends exactly one message
\* with role user whose content is the trimmed input, clears the input
\* buffer and sets typing, all in the step that issues the relay request,
\* whose response is still to come.
C2_OptimisticAppend ==
    [][(Submitted /\ ~Blank(input)) =>
          /\ Len(messages') = Len(messages) + 1
          /\ IsPrefix(messages, messages')
          /\ Last(messages').role = "user"
          /\ IsTrimOf(Last(messages').content, input)
          /\ input' = <<>>
          /\ typing' = TRUE
          /\ \E c \in chats' \ chats :
                /\ c.pc = "fetch"
                /\ c.res.kind = "none"
                /\ c.userMsg = Last(messages')]_vars

C2_Witness ==
    /\ typing
    /\ input = <<>>
    /\ Len(messages) = 3
    /\ Last(messages).role = "user"
    /\ \E c \in chats : c.pc = "fetch" /\ c.userMsg = Last(messages)

\* C3: a submission of blank input (empty or white space only) leaves the
\* log, the input buffer, the attachment queue and typing unchanged and
\* issues no relay request.
C3_BlankSubmitIsNoOp ==
    [][(Submitted /\ Blank(input)) =>
          UNCHANGED <<messages, input, files, typing, chats, uuid>>]_vars

C3_Witness ==
    /\ returned = 77
    /\ input # <<>>
    /\ Blank(input)
    /\ files # <<>>
    /\ messages # <<>>

\* C4: when a relay call succeeds, its continuation appends exactly one
\* message, with role assistant, at the end of the log: after the user
\* message of that call and after every message already in the log.
C4_ReplyAppendedLast ==
    [][\A c \in chats : (ChatDone(c) /\ Succeeded(c.res)) =>
          /\ Len(messages') = Len(messages) + 1
          /\ IsPrefix(messages, messages')
          /\ Last(messages') = c.res.message
          /\ Last(messages').role = "assistant"
          /\ \E i \in 1..Len(messages) : messages[i] = c.userMsg]_vars

C4_Witness ==
    /\ Len(messages) = 4
    /\ messages[2].role = "assistant"
    /\ messages[4].role = "assistant"
    /\ chats = {}

\* C5: when a relay call fails (status outside 2xx, or the request could not
\* be sent), the log after the turn is the log before the submission plus
\* the user message only, and typing is false.
C5_FailedTurnKeepsUserMessage ==
    [][\A c \in chats : (ChatDone(c) /\ ~Succeeded(c.res)) =>
          /\ messages' = messages
          /\ messages' = Append(c.body.messages, c.userMsg)
          /\ Len(messages') = Len(c.body.messages) + 1
          /\ Last(messages').role = "user"
          /\ typing' = FALSE]_vars

C5_Witness ==
    /\ BagIn("Chat error", toasts)
    /\ ~typing
    /\ chats = {}
    /\ Len(messages) = 3
    /\ Last(messages).role = "user"

\* C6: at most one relay call is in flight in every reachable state.
C6_OneRelayCallInFlight == Cardinality(chats) <= 1

C6_Witness ==
    /\ typing
    /\ Cardinality(chats) = 1
    /\ ~Blank(input)
    /\ uuid + picks < MaxOps

\* C7: the log is append-only: every step leaves the log it found as a
\* prefix of the log it produces.
C7_LogAppendOnly == [][IsPrefix(messages, messages')]_vars

C7_Witness ==
    /\ Len(messages) = 3
    /\ messages[1].role = "user"
    /\ messages[2].role = "user"
    /\ messages[3].role = "assistant"

\* C8: when the continuation of an upload has run, whether the upload
\* succeeded or failed, the attachment queue is empty.
C8_QueueEmptyAfterUpload ==
    [][\A u \in uploads : UploadDone(u) => files' = <<>>]_vars

\* C9: every failed relay call and every failed upload (status outside 2xx
\* or request not sendable) raises exactly one notice and leaves no
\* rejection unhandled.
C9_FailuresBecomeOneNotice ==
    [][/\ \A c \in chats : (ChatDone(c) /\ ~Succeeded(c.res)) =>
             BagCardinality(toasts') = 1 /\ ~escaped'
       /\ \A u \in uploads : (UploadDone(u) /\ ~Succeeded(settled')) =>
             BagCardinality(toasts') = 1 /\ ~escaped']_vars

\* C10: the continuation of a failed upload leaves the input buffer as it
\* found it.
C10_FailedUploadKeepsInput ==
    [][\A u \in uploads : (UploadDone(u) /\ ~Succeeded(settled')) =>
          input' = input]_vars

C10_Witness ==
    /\ BagIn("Upload failed", toasts)
    /\ settled.status = 500
    /\ uploads = {}
    /\ ~Blank(input)


\* the lines "Attachment: u", one per URL, separated by single newlines
RECURSIVE RefText(_)
RefText(urls) ==
    IF urls = <<>> THEN <<>>
    ELSE IF Len(urls) = 1 THEN <<"Attachment: ">> \o urls[1]
    ELSE RefText(SubSeq(urls, 1, Len(urls) - 1))
         \o <<"\n", "Attachment: ">> \o urls[Len(urls)]

\* C12: a successful upload that returns URLs u1..uN (N >= 1) leaves in the
\* input buffer the lines "Attachment: ui", in response order and separated
\* by single newlines, when the buffer was empty, and otherwise the previous
\* buffer, a blank line (two newlines), then those lines.
C12_ReferenceLines ==
    [][\A u \in uploads :
          (UploadDone(u) /\ Succeeded(settled') /\ Len(settled'.urls) >= 1) =>
             input' = IF input = <<>>
                      THEN RefText(settled'.urls)
                      ELSE input \o <<"\n", "\n">> \o RefText(settled'.urls)]_vars

C12_Witness ==
    /\ Succeeded(settled)
    /\ Len(settled.urls) = 2
    /\ \E k \in 1..MaxLen :
          /\ k < Len(input)
          /\ \A i \in 1..k : input[i] \in Chars
          /\ input = SubSeq(input, 1, k) \o <<"\n", "\n">>
                       \o RefText(settled.urls)

\* C17 as stated: when the backend answers with a status outside 2xx and
\* body text B, the relay answers with that status and with B itself as the
\* error payload, whatever B is, after one request to the backend.
C17_ErrorBodyVerbatim ==
    \A c \in chats :
        (c.pc = "settled" /\ c.outcome.kind = "status") =>
            /\ c.res.status = c.outcome.status
            /\ c.res.error = c.outcome.body
            /\ c.sent = 1

\* C17 amended: the relay answers with the backend's status; the error
\* payload is B itself when B is not empty and "Chat backend error" when B
\* is empty; the backend was asked once.
C17_ErrorBodyOrDefault ==
    \A c \in chats :
        (c.pc = "settled" /\ c.outcome.kind = "status") =>
            /\ ~c.res.ok
            /\ c.res.status = c.outcome.status
            /\ c.outcome.body # "" => c.res.error = c.outcome.body
            /\ c.outcome.body = "" => c.res.error = "Chat backend error"
            /\ c.sent = 1

C17_Witness ==
    \E c \in chats :
        /\ c.pc = "settled"
        /\ c.outcome.kind = "status"
        /\ c.outcome.status = 429
        /\ c.outcome.body = ""
        /\ c.res.error = "Chat backend error"

\* C18: the message the relay forwards is the content of one entry of the
\* transcript it received: the latest entry with role user.
C18_ForwardsLatestUserEntry ==
    \A c \in chats :
        c.pc = "backend" =>
            \E i \in 1..Len(c.body.messages) :
                /\ c.body.messages[i].role = "user"
                /\ c.body.messages[i].content = c.backendReq.message
                /\ \A j \in i + 1..Len(c.body.messages) :
                      c.body.messages[j].role # "user"

\* C19: a submission has at most one request to the relay and the relay at
\* most one request to the backend; a file selection has at most one upload
\* request; a step that is no submission starts no relay call, a step
\* that is no file selection starts no upload, and a failed call is gone
\* after its continuation.
C19_SingleAttempt ==
    [][/\ \A c \in chats' : c.tries <= 1 /\ c.sent <= 1
       /\ \A u \in uploads' : u.tries <= 1
       /\ Cardinality(chats') <= Cardinality(chats) + 1
       /\ Cardinality(uploads') <= Cardinality(uploads) + 1
       /\ uuid' = uuid =>
             {c.userMsg.id : c \in chats'} \subseteq {c.userMsg.id : c \in chats}
       /\ picks' = picks =>
             {u.id : u \in uploads'} \subseteq {u.id : u \in uploads}
       /\ \A c \in chats :
             (c.pc = "settled" /\ Throws(c.res)
                /\ \A d \in chats' : d.pc # "settled" \/ d.userMsg.id # c.userMsg.id)
             => \A d \in chats' : d.userMsg.id # c.userMsg.id]_vars

C19_Witness ==
    /\ BagIn("Chat error", toasts)
    /\ chats = {}
    /\ picks >= 1
    /\ uploads = {}
    /\ Len(messages) = 1

\* C20: the step in which a submission's relay call finishes, with a reply
\* or with a failure, leaves the attachment queue empty.
C20_QueueEmptyAfterTurn ==
    [][\A c \in chats : ChatDone(c) => files' = <<>>]_vars

C20_Witness ==
    /\ picks >= 1
    /\ files = <<>>
    /\ chats = {}
    /\ messages # <<>>

\* C11: a request whose N >= 1 writes all succeeded answers with N URLs that
\* differ from one another, and an empty input buffer that receives the
\* answer holds N reference lines.
C11_DistinctUrlPerFile ==
    \A n \in DOMAIN reqs :
        reqs[n].pc = "done" =>
            /\ Len(reqs[n].res.urls) = Len(reqs[n].files)
            /\ \A i, j \in DOMAIN reqs[n].res.urls :
                  i # j => reqs[n].res.urls[i] # reqs[n].res.urls[j]
            /\ References(InputAfterUpload(<<>>, reqs[n].res))
                  = Len(reqs[n].files)

\* C13: two files that were stored under the same name have identical
\* original names (the name holds the millisecond, so they were also
\* processed in the same millisecond).
C13_SameStoredNameSameOriginal ==
    \A m, n \in DOMAIN reqs :
        \A i \in DOMAIN reqs[m].urls : \A j \in DOMAIN reqs[n].urls :
            (<<m, i>> # <<n, j>> /\ reqs[m].urls[i] = reqs[n].urls[j]) =>
                reqs[m].files[i].name = reqs[n].files[j].name

\* C14: every URL returned to a request addresses, in storage, content that
\* this request submitted, whatever the other requests have done.
C14_UrlAddressesOwnContent ==
    \A n \in DOMAIN reqs :
        reqs[n].pc = "done" =>
            \A k \in DOMAIN reqs[n].res.urls :
                \E e \in disk : \E j \in DOMAIN reqs[n].files :
                    /\ e.name = StoredName(reqs[n].res.urls[k])
                    /\ e.content = reqs[n].files[j].content

\* C15: a request in which a write failed is answered with a failure that
\* carries no URL, also when files were written before the failing one; a
\* successful answer is given only when no write failed.
C15_NoPartialList ==
    \A n \in DOMAIN reqs :
        /\ reqs[n].failedAt > 0 =>
              /\ reqs[n].res.kind = "http"
              /\ ~reqs[n].res.ok
              /\ reqs[n].res.urls = <<>>
        /\ reqs[n].res.ok => reqs[n].failedAt = 0

C15_Witness ==
    \E n \in DOMAIN reqs :
        /\ reqs[n].failedAt = 2
        /\ Len(reqs[n].urls) = 1
        /\ reqs[n].res.status = 500
        /\ reqs[n].res.urls = <<>>

C21_UploadLeavesLogAndTyping ==
    [][\A u \in uploads :
          UploadDone(u) =>
             /\ messages' = messages
             /\ typing' = typing
             /\ chats' = chats]_vars

C21_Witness ==
    /\ settled.kind = "http"
    /\ typing
    /\ chats # {}
    /\ messages # <<>>
    /\ input # <<>>

\* C25: typing is true exactly when a relay call of the session is in
\* flight.
C25_TypingIffInFlight == typing <=> chats # {}

C25_Witness ==
    /\ ~typing
    /\ chats = {}
    /\ Len(messages) = 2
    /\ Last(messages).role = "assistant"
    /\ uuid + picks < MaxOps

\* C27: for a successful backend answer the relay's response carries one
\* message with the answer's message_id as id, role assistant and the
\* answer's agent_response as content, and the continuation of the
\* submission appends this message to the log.
C27_ReplyMapsBackendAnswer ==
    [][\A c \in chats :
          /\ (c.pc = "settled" /\ c.outcome.kind = "ok") =>
                /\ c.res.ok
                /\ c.res.message.id = c.outcome.message_id
                /\ c.res.message.role = "assistant"
                /\ c.res.message.content = c.outcome.agent_response
          /\ (ChatDone(c) /\ c.outcome.kind = "ok") =>
                /\ Len(messages') = Len(messages) + 1
                /\ Last(messages') =
                      [id |-> c.outcome.message_id, role |-> "assistant",
                       content |-> c.outcome.agent_response]]_vars

C27_Witness ==
    /\ chats = {}
    /\ messages # <<>>
    /\ Last(messages).id \in MessageIds
    /\ Last(messages).content \in AgentTexts

\* C28: the log starts with a user message, every assistant message has a
\* user message right before it, there are at most as many assistant as
\* user messages, and a reply is appended right after the user message of
\* its own turn.
C28_LogStructure ==
    [][/\ messages' # <<>> => messages'[1].role = "user"
       /\ \A i \in DOMAIN messages' :
             messages'[i].role = "assistant" =>
                i > 1 /\ messages'[i - 1].role = "user"
       /\ Cardinality({i \in DOMAIN messages' : messages'[i].role = "assistant"})
             <= Cardinality({i \in DOMAIN messages' : messages'[i].role = "user"})
       /\ \A c \in chats :
             (ChatDone(c) /\ Succeeded(c.res)) => Last(messages) = c.userMsg]_vars

C28_Witness ==
    /\ Len(messages) = 3
    /\ messages[1].role = "user"
    /\ messages[2].role = "user"
    /\ messages[3].role = "assistant"

\* C29: a successful upload appends its reference lines to the value the
\* buffer has when the upload completes: that value, whatever was typed,
\* inserted, cleared or attached while the upload was in flight, is kept
\* as the beginning of the new buffer, and the buffer gains one reference
\* line per URL.
C29_NoLostInputUpdate ==
    [][\A u \in uploads :
          (UploadDone(u) /\ Succeeded(settled')) =>
             /\ IsPrefix(input, input')
             /\ References(input') = References(input) + Len(settled'.urls)]_vars

\* an upload has completed while another one is still in flight, and the
\* text typed before is still in the buffer
C29_Witness ==
    /\ picks = 2
    /\ Cardinality(uploads) = 1
    /\ Succeeded(settled)
    /\ Len(settled.urls) >= 1
    /\ References(input) = Len(settled.urls)
    /\ input[1] \in Chars

\* C22: before the first submission of a session whose backend history is
\* not empty, the log is not empty.
C22_LogSeededAtStart ==
    (uuid = 0 /\ PriorTurns # <<>>) => messages # <<>>

\* the query string of a path: what follows the question mark
QueryPart(path) == Tail(path)

\* key=... is one of the parameters of the query q
HasParam(q, key) ==
    \E i \in 1..Len(q) - 1 :
        q[i] = key /\ q[i + 1] = "=" /\ (i = 1 \/ q[i - 1] = "&")

\* the text between key= and the next & (or the end of the query)
ParamValue(q, key) ==
    LET i == CHOOSE i \in 1..Len(q) - 1 :
                 q[i] = key /\ q[i + 1] = "=" /\ (i = 1 \/ q[i - 1] = "&")
        stops == {j \in i + 2..Len(q) : q[j] = "&"} \cup {Len(q) + 1}
        end == CHOOSE j \in stops : \A k \in stops : j <= k
    IN SubSeq(q, i + 2, end - 1)

\* C23: the query of every call of loadChatHistory has a strategy_id
\* parameter exactly when strategyId was passed and is not empty, and has a
\* limit parameter whose value is the limit passed, or 50 when none was.
C23_QueryParameters ==
    \A n \in DOMAIN loads :
        LET l == loads[n]
            q == QueryPart(l.path)
        IN /\ l.path[1] = "/api/chat/history?"
           /\ HasParam(q, "strategy_id")
                 <=> (l.strategyId.given /\ l.strategyId.text # <<>>)
           /\ HasParam(q, "limit")
           /\ l.limit.given => ParamValue(q, "limit") = <<ToString(l.limit.number)>>
           /\ ~l.limit.given => ParamValue(q, "limit") = <<"50">>

C23_Witness ==
    \E n \in DOMAIN loads :
        /\ loads[n].strategyId.given
        /\ loads[n].strategyId.text = <<>>
        /\ ~loads[n].limit.given
        /\ loads[n].path = <<"/api/chat/history?", "limit", "=", "50">>

\* C24: a call of loadChatHistory that has settled either returned the
\* body of a 2xx answer, unchanged, or threw: after a rejected fetch, a
\* status outside 2xx or an unreadable body the caller gets an error and
\* no history at all; a pending call has produced nothing.
C24_ReturnsBodyOrFails ==
    \A n \in DOMAIN loads :
        LET l == loads[n]
        IN /\ l.pc # "done" => l.out = NotSettled
           /\ l.pc = "done" =>
                 \/ /\ l.outcome.kind = "ok"
                    /\ l.out.kind = "returned"
                    /\ l.out.value = l.outcome.body
                 \/ /\ l.outcome.kind \in {"status", "malformed", "unreachable"}
                    /\ l.out.kind = "thrown"
                    /\ l.out.value = NoHistory
                    /\ l.out.error # <<>>

C24_Witness ==
    \E n \in DOMAIN loads :
        /\ loads[n].pc = "done"
        /\ loads[n].outcome.status = 500
        /\ loads[n].out.kind = "thrown"
        /\ loads[n].out.error = <<"Backend ", "500">>

\* C30: in every request the writes happen one at a time in the order of
\* the files: while file i is being named or written no content of file i
\* or of a later file is in storage; the list holds one URL per completed
\* write, each for a name that is in storage; the j-th URL is the one of
\* the j-th file, with time stamps that never decrease along the list; the
\* response carries this list.
C30_SequentialInOrder ==
    \A n \in DOMAIN reqs :
        LET r == reqs[n]
        IN /\ r.pc \in {"name", "write"} =>
                 /\ Len(r.urls) = r.i - 1
                 /\ r.i <= Len(r.files)
                 /\ \A e \in disk : \A j \in r.i..Len(r.files) :
                       e.content # r.files[j].content
           /\ r.pc = "done" =>
                 /\ Len(r.urls) = Len(r.files)
                 /\ r.res.urls = r.urls
           /\ \A j \in DOMAIN r.urls :
                 \E e \in disk : e.name = StoredName(r.urls[j])
           /\ \E ts \in [DOMAIN r.urls -> 0..MaxClock] :
                 /\ \A j \in DOMAIN r.urls :
                       r.urls[j] = <<"/uploads/", ToString(ts[j]), "-">>
                                     \o Sanitize(r.files[j].name)
                 /\ \A j, k \in DOMAIN r.urls : j < k => ts[j] <= ts[k]

C30_Witness ==
    \E n \in DOMAIN reqs :
        /\ reqs[n].pc = "done"
        /\ Len(reqs[n].files) = 3
        /\ reqs[n].res.urls[1] # reqs[n].res.urls[3]
        /\ Len(reqs) = 1

\* C26: whenever a relay call is in flight, the session later reaches a
\* state with no call in flight, typing false and the submit control
\* enabled, whatever the relay or the backend answered.
C26_TurnAlwaysEnds ==
    (chats # {}) ~> (chats = {} /\ ~typing /\ SubmitEnabled)

\* a second submission was accepted after a first turn that failed
C26_Witness ==
    /\ uuid = 2
    /\ chats = {}
    /\ ~typing
    /\ Len(messages) = 2
    /\ messages[2].role = "user"

====
